---------------------------- MODULE Spec2Model ----------------------------
(***************************************************************************)
(* A model of the nuix library: the typed request dispatcher               *)
(* (createFetchNui / fetchNui, src/src/client.ts), the NUI message         *)
(* listener (onNuiMessage, src/src/global.d.ts), and the locale registry,  *)
(* translators and formatter (src/src/utils.ts).                           *)
(*                                                                         *)
(* JavaScript values are tagged records, so that values of different       *)
(* types can be compared: [t |-> "undefined"], [t |-> "null"],             *)
(* [t |-> "num", n |-> 5], [t |-> "str", s |-> "x"],                       *)
(* [t |-> "obj", name |-> "Dev"], [t |-> "fn", name |-> "echo"].           *)
(***************************************************************************)
EXTENDS Integers, Sequences, FiniteSets, TLC

\* ------------------------------------------------------------------ bounds

\* fetchNui calls the model follows (they may be in flight at once)
MaxDispatch == 1
\* the largest options.timeout a call is given, in ms
MaxTimeout == 1

\* --------------------------------------------------------------- JS values

Undefined == [t |-> "undefined"]
Null == [t |-> "null"]
Num(n) == [t |-> "num", n |-> n]
Str(s) == [t |-> "str", s |-> s]
Obj(name) == [t |-> "obj", name |-> name]
Fn(name) == [t |-> "fn", name |-> name]

\* JavaScript's ToBoolean, for the value types the model holds
Truthy(v) ==
    CASE v.t = "undefined" -> FALSE
      [] v.t = "null" -> FALSE
      [] v.t = "num" -> v.n # 0
      [] v.t = "str" -> v.s # ""
      [] OTHER -> TRUE

\* v ?? {}
OrEmptyObject(v) == IF v.t \in {"undefined", "null"} THEN Obj("{}") ELSE v

\* ------------------------------------------------- dispatcher: input sets

Dispatches == 1..MaxDispatch

\* event names a call may give: four the mock table registers, one it does
\* not, and one that is a property every object inherits
Events == {"getPlayer", "echo", "broken", "nothing", "ping", "toString"}

\* payloads: absent, a plain value, and an object that refers to itself
\* (JSON.stringify throws on it)
Circular == Obj("circular")
Payloads == {Undefined, Num(5), Circular}

\* options.timeout: absent, or a number of ms
Timeouts == {Undefined} \cup {Num(n) : n \in 0..MaxTimeout}

\* HTTP statuses the transport may answer with
Statuses == {200, 404, 500}

\* what a response body parses to, or does not
ServerResult == Obj("server")
Bodies == {"json", "garbage"}

\* errors the transport itself may reject with (a network failure, or an
\* abort it reports on its own, as some hosts do when a frame is torn down)
TypeError == [kind |-> "TypeError"]
AbortError == [kind |-> "DOMException", name |-> "AbortError"]
SyntaxError == [kind |-> "SyntaxError"]
TransportErrors == {TypeError, AbortError}

\* the properties every plain object inherits from Object.prototype that the
\* model's event names can hit
ObjectPrototype == [k \in {"toString"} |-> Fn("Object.prototype.toString")]

\* factoryOptions.mockData: absent, or an object literal.  "broken" is
\* registered with the value undefined, "nothing" with null.
NoMockData == [configured |-> FALSE, own |-> [k \in {} |-> Undefined]]
MockTable ==
    [configured |-> TRUE,
     own |-> [k \in {"getPlayer", "echo", "broken", "nothing"} |->
                CASE k = "getPlayer" -> Obj("Dev")
                  [] k = "echo" -> Fn("echo")
                  [] k = "broken" -> Undefined
                  [] k = "nothing" -> Null]]
MockTables == {NoMockData, MockTable}

VARIABLES
    debug,      \* factoryOptions.debug ?? false
    mockData,   \* factoryOptions.mockData
    call,       \* call[d]: the state of the d-th fetchNui call
    subs,       \* listener: subs[i], the i-th onNuiMessage registration
    listeners,  \* listener: window's "message" listener list, in order
    current,    \* listener: the message event being dispatched, or none
    pending,    \* listener: listeners of the current event not yet run
    invoked,    \* listener: handler invocations of the current event
    delivered,  \* listener: number of message events dispatched so far
    heap,       \* locales: the table objects that exist, heap[a] at address a
    _locales,   \* locales: the module's _locales, the address of a table
    lastOp,     \* locales: the last registry or merge call and what it did
    lastCall,   \* locales: the last translator call and what it returned
    lastFormat  \* formatter: a luaFormat call, its template and arguments

fetchVars == <<debug, mockData, call>>
listenerVars == <<subs, listeners, current, pending, invoked, delivered>>
localeVars == <<heap, _locales, lastOp, lastCall>>
formatVars == <<lastFormat>>
vars == <<debug, mockData, call, subs, listeners, current, pending, invoked, delivered,
          heap, _locales, lastOp, lastCall, lastFormat>>

\* ------------------------------------------------- dispatcher: the code

Pending == [kind |-> "pending"]
Resolved(v) == [kind |-> "resolved", value |-> v]
Rejected(e) == [kind |-> "rejected", error |-> e]

\* the three errors fetchNui constructs itself
MockUndefinedError(ev) == [kind |-> "Error", what |-> "mock-undefined", event |-> ev]
HttpError(ev, status) == [kind |-> "Error", what |-> "http", event |-> ev, status |-> status]
TimeoutError(ev, ms) == [kind |-> "Error", what |-> "timeout", event |-> ev, ms |-> ms]

IdleCall ==
    [pc |-> "idle", event |-> "", data |-> Undefined, timeout |-> Undefined,
     controller |-> "none", timeoutId |-> "none", elapsed |-> 0,
     requests |-> <<>>, status |-> 0, mockCalls |-> <<>>, console |-> <<>>,
     effects |-> <<>>, lateAbort |-> FALSE, outcome |-> Pending]

\* event in mockData: own and inherited properties
In(ev, table) == ev \in DOMAIN table.own \/ ev \in DOMAIN ObjectPrototype

\* mockData[event]
Get(table, ev) ==
    IF ev \in DOMAIN table.own THEN table.own[ev]
    ELSE IF ev \in DOMAIN ObjectPrototype THEN ObjectPrototype[ev]
    ELSE Undefined

\* HasMock with a fault: the entry's truthiness instead of its presence
HasMock_Truthy(ev) == mockData.configured /\ Truthy(Get(mockData, ev))

\* mockData && event in mockData
HasMock(ev) == mockData.configured /\ In(ev, mockData)

\* MockIsUndefined with a fault: the guard is missing
MockIsUndefined_Never(mock) == FALSE

\* mock === undefined
MockIsUndefined(mock) == mock = Undefined

\* calling a mock function with the payload
Invoke(f, dat) ==
    CASE f.name = "echo" -> [t |-> "echoed", of |-> dat]
      [] f.name = "Object.prototype.toString" -> Str("[object Undefined]")
      [] OTHER -> Undefined

\* MockResult with a fault: a function entry is returned, not called
MockResult_NotCalled(mock, dat) == mock

\* typeof mock === "function" ? mock(data) : mock
MockResult(mock, dat) == IF mock.t = "fn" THEN Invoke(mock, dat) ELSE mock

\* the arguments the mock function was called with, in order
MockInvocations(mock, dat) == IF mock.t = "fn" THEN <<dat>> ELSE <<>>

\* console.log lines, when debug is on
LogOut(ev, dat) == IF debug THEN <<[dir |-> "out", event |-> ev, arg |-> OrEmptyObject(dat)]>> ELSE <<>>
LogMock(ev, result) == IF debug THEN <<[dir |-> "mock", event |-> ev, arg |-> result]>> ELSE <<>>
LogIn(ev, result) == IF debug THEN <<[dir |-> "in", event |-> ev, arg |-> result]>> ELSE <<>>

\* what a call does that can be seen from outside, in the order it does it:
\* its console.log lines, and with them the test of the mock table, the call
\* of a mock function, the transport call and the arrival of the result
Effect(what) == [dir |-> what]

\* Enter with a fault: the mock table is looked at before the line is logged
Enter_LookupFirst(ev, dat) == <<Effect("lookup")>> \o LogOut(ev, dat)

\* the body's first statements: the outbound log line, then the test
\* mockData && event in mockData
Enter(ev, dat) == LogOut(ev, dat) \o <<Effect("lookup")>>

\* the mock's result is worked out (a function entry is called), then logged
MockEffects(ev, mock, dat) ==
    (IF mock.t = "fn" THEN <<Effect("invoke")>> ELSE <<>>)
        \o LogMock(ev, MockResult(mock, dat))

\* the host identity source: the name window.GetParentResourceName() gives,
\* or "nui-frame-app" where the host injects no such function; the model
\* carries it as one opaque name
getResourceName == "<resourceName>"

\* options?.timeout ? new AbortController() : undefined
NewController(timeout) == IF Truthy(timeout) THEN "live" ELSE "none"

\* if (controller && options?.timeout) timeoutId = setTimeout(...)
ArmTimer(controller, timeout) ==
    IF controller # "none" /\ Truthy(timeout) THEN "armed" ELSE "none"

\* the delay setTimeout waits: a negative delay counts as 0
Delay(timeout) == IF timeout.t = "num" /\ timeout.n > 0 THEN timeout.n ELSE 0

\* JSON.stringify(data ?? {}) throws a TypeError on a circular structure
CanStringify(dat) == dat # Circular
Request(ev, dat) ==
    [url |-> <<"https://", getResourceName, "/", ev>>, method |-> "POST",
     body |-> OrEmptyObject(dat)]

\* ResponseOk with a fault: no upper end to the success range
ResponseOk_NoUpperEnd(status) == status >= 200

\* response.ok
ResponseOk(status) == status >= 200 /\ status <= 299

\* Catch with a fault: every error is thrown on as it is
Catch_Rethrow(ev, timeout, error) == error

\* the catch block: what is thrown on for the error caught
Catch(ev, timeout, error) ==
    IF error.kind = "DOMException" /\ error.name = "AbortError"
    THEN TimeoutError(ev, timeout)
    ELSE error

\* Finally with a fault: the timer is left pending
Finally_NoClear(timeoutId) == timeoutId

\* the finally block: if (timeoutId !== undefined) clearTimeout(timeoutId)
Finally(timeoutId) == IF timeoutId = "armed" THEN "cleared" ELSE timeoutId

\* the try block ends by throwing error: catch, then finally.  The clock of
\* a call is followed only while the call awaits the transport.
Throw(c, error) ==
    [c EXCEPT !.pc = "done", !.elapsed = 0,
              !.outcome = Rejected(Catch(c.event, c.timeout, error)),
              !.timeoutId = Finally(c.timeoutId)]

\* the try block ends by returning result: finally
Return(c, result) ==
    [c EXCEPT !.pc = "done", !.elapsed = 0,
              !.outcome = Resolved(result),
              !.console = c.console \o LogIn(c.event, result),
              !.effects = c.effects \o <<Effect("parsed")>> \o LogIn(c.event, result),
              !.timeoutId = Finally(c.timeoutId)]

\* fetchNui(event, data, options), up to its first await or its end
FetchNuiBody(ev, dat, timeout) ==
    LET c0 == [IdleCall EXCEPT !.event = ev, !.data = dat, !.timeout = timeout,
                               !.console = LogOut(ev, dat),
                               !.effects = Enter(ev, dat)]
    IN  IF HasMock(ev)
        THEN LET mock == Get(mockData, ev)
             IN  IF MockIsUndefined(mock)
                 THEN [c0 EXCEPT !.pc = "done",
                                 !.outcome = Rejected(MockUndefinedError(ev))]
                 ELSE [c0 EXCEPT !.pc = "done",
                                 !.mockCalls = MockInvocations(mock, dat),
                                 !.console = c0.console \o LogMock(ev, MockResult(mock, dat)),
                                 !.effects = c0.effects \o MockEffects(ev, mock, dat),
                                 !.outcome = Resolved(MockResult(mock, dat))]
        ELSE LET controller == NewController(timeout)
                 c1 == [c0 EXCEPT !.controller = controller,
                                  !.timeoutId = ArmTimer(controller, timeout)]
             IN  IF CanStringify(dat)
                 THEN [c1 EXCEPT !.pc = "fetching",
                                 !.requests = <<Request(ev, dat)>>,
                                 !.effects = c1.effects \o <<Effect("fetch")>>]
                 ELSE Throw(c1, TypeError)

fetchNui(d, ev, dat, timeout) ==
    /\ call[d].pc = "idle"
    /\ \A e \in DOMAIN call : e < d => call[e].pc # "idle"
    /\ call' = [call EXCEPT ![d] = FetchNuiBody(ev, dat, timeout)]
    /\ UNCHANGED <<debug, mockData, listenerVars, localeVars, formatVars>>

InFlight(c) == c.pc \in {"fetching", "reading"}

\* the transport answers the request: fetch() resolves with a response
TransportRespond(d, status) ==
    /\ call[d].pc = "fetching"
    /\ call[d].controller # "aborted"
    /\ call' = [call EXCEPT ![d] =
                  IF ResponseOk(status)
                  THEN [call[d] EXCEPT !.pc = "reading", !.status = status]
                  ELSE Throw([call[d] EXCEPT !.status = status],
                             HttpError(call[d].event, status))]
    /\ UNCHANGED <<debug, mockData, listenerVars, localeVars, formatVars>>

\* the transport fails: fetch() rejects
TransportFail(d, error) ==
    /\ call[d].pc = "fetching"
    /\ call[d].controller # "aborted"
    /\ call' = [call EXCEPT ![d] = Throw(call[d], error)]
    /\ UNCHANGED <<debug, mockData, listenerVars, localeVars, formatVars>>

\* response.json() settles: the body parsed, was no JSON, or failed to arrive
BodyDone(d, body) ==
    /\ call[d].pc = "reading"
    /\ call[d].controller # "aborted"
    /\ call' = [call EXCEPT ![d] =
                  IF body = "json" THEN Return(call[d], ServerResult)
                  ELSE Throw(call[d], SyntaxError)]
    /\ UNCHANGED <<debug, mockData, listenerVars, localeVars, formatVars>>

BodyFail(d, error) ==
    /\ call[d].pc = "reading"
    /\ call[d].controller # "aborted"
    /\ call' = [call EXCEPT ![d] = Throw(call[d], error)]
    /\ UNCHANGED <<debug, mockData, listenerVars, localeVars, formatVars>>

\* the timer callback, () => controller.abort(): the signal is triggered and
\* a transport call still awaited rejects with an AbortError on the spot
AbortCallback(c) ==
    LET c1 == [c EXCEPT !.timeoutId = "fired", !.controller = "aborted",
                        !.lateAbort = (c.pc = "done")]
    IN  IF InFlight(c) THEN Throw(c1, AbortError) ELSE c1

\* TimerFire with a fault: one controller serves every call, so a timer
\* that runs out aborts all the calls that wait on a signal
TimerFire_SharedController(d) ==
    /\ call[d].timeoutId = "armed"
    /\ call[d].elapsed >= Delay(call[d].timeout)
    /\ call' = [e \in DOMAIN call |->
                  IF e = d THEN AbortCallback(call[e])
                  ELSE IF call[e].controller = "live" /\ InFlight(call[e])
                       THEN Throw([call[e] EXCEPT !.controller = "aborted"], AbortError)
                       ELSE call[e]]
    /\ UNCHANGED <<debug, mockData, listenerVars, localeVars, formatVars>>

TimerFire(d) ==
    /\ call[d].timeoutId = "armed"
    /\ call[d].elapsed >= Delay(call[d].timeout)
    /\ call' = [call EXCEPT ![d] = AbortCallback(call[d])]
    /\ UNCHANGED <<debug, mockData, listenerVars, localeVars, formatVars>>

\* a call's clock runs while it awaits the transport or holds a pending timer
Timed(c) == InFlight(c) \/ c.timeoutId = "armed"

\* one ms passes; a timer that is due runs before more time passes, and a
\* call's clock is followed until it is one ms past the delay it was given
Tick ==
    /\ \E d \in DOMAIN call : Timed(call[d])
    /\ \A d \in DOMAIN call :
          /\ Timed(call[d]) => call[d].elapsed <= Delay(call[d].timeout)
          /\ call[d].timeoutId = "armed" => call[d].elapsed < Delay(call[d].timeout)
    /\ call' = [d \in DOMAIN call |->
                  IF Timed(call[d]) THEN [call[d] EXCEPT !.elapsed = @ + 1]
                  ELSE call[d]]
    /\ UNCHANGED <<debug, mockData, listenerVars, localeVars, formatVars>>

\* ------------------------------------------------- listener: input sets

\* onNuiMessage registrations the model follows
MaxSubs == 2
\* message events the window dispatches
MaxMessages == 2

\* action names a filtered subscription is made for
Actions == {"showMenu", "hideMenu"}
\* handler functions the caller passes; one may be passed more than once
Handlers == {"h1", "h2"}

\* a structured message, as SendNUIMessage posts it
Msg(action, data) == [t |-> "msg", action |-> action, data |-> data]

\* what a message event may carry as event.data: null, a primitive, an
\* object with no action field or an empty one, and well-formed messages
MessageData == {Num(1), Undefined}
Payloads_Invalid ==
    {Null, Str("resize"), Msg(Undefined, Num(1)), Msg(Str(""), Num(1))}
Payloads_Valid == {Msg(Str(a), dat) : a \in Actions, dat \in MessageData}
MessagePayloads == Payloads_Invalid \cup Payloads_Valid

\* typeof payload === "object"
TypeofObject(p) == p.t \in {"msg", "obj", "null"}
\* payload.action and payload.data; a field that is missing reads as undefined
ActionOf(p) == IF p.t = "msg" THEN p.action ELSE Undefined
DataOf(p) == IF p.t = "msg" THEN p.data ELSE Undefined

NoEvent == [payload |-> Undefined, targets |-> <<>>]

\* ------------------------------------------------- listener: the code

\* Listener with a fault: a filtered subscription does not compare the action
Listener_NoFilter(sub, payload) ==
    IF ~Truthy(payload) \/ ~TypeofObject(payload) THEN <<>>
    ELSE IF ~Truthy(ActionOf(payload)) THEN <<>>
    ELSE IF sub.actionOrHandler.t = "str"
    THEN <<[handler |-> sub.handler.name, args |-> <<DataOf(payload)>>]>>
    ELSE <<[handler |-> sub.actionOrHandler.name,
            args |-> <<ActionOf(payload), DataOf(payload)>>]>>

\* Listener with a fault: a catch-all handler is given the data alone
Listener_DataOnly(sub, payload) ==
    IF ~Truthy(payload) \/ ~TypeofObject(payload) THEN <<>>
    ELSE IF ~Truthy(ActionOf(payload)) THEN <<>>
    ELSE IF sub.actionOrHandler.t = "str"
    THEN IF ActionOf(payload) # sub.actionOrHandler THEN <<>>
         ELSE <<[handler |-> sub.handler.name, args |-> <<DataOf(payload)>>]>>
    ELSE <<[handler |-> sub.actionOrHandler.name, args |-> <<DataOf(payload)>>]>>

\* the listener closure of one registration, run on a message event: the
\* handler calls it makes (none or one), each with its arguments
Listener(sub, payload) ==
    IF ~Truthy(payload) \/ ~TypeofObject(payload) THEN <<>>
    ELSE IF ~Truthy(ActionOf(payload)) THEN <<>>
    ELSE IF sub.actionOrHandler.t = "str"
    THEN IF ActionOf(payload) # sub.actionOrHandler THEN <<>>
         ELSE <<[handler |-> sub.handler.name, args |-> <<DataOf(payload)>>]>>
    ELSE <<[handler |-> sub.actionOrHandler.name,
            args |-> <<ActionOf(payload), DataOf(payload)>>]>>

\* window.addEventListener("message", listener), listener a fresh closure
AddEventListener(list, id) == Append(list, id)

\* RemoveEventListener with a fault: the function passed is not the one that
\* was added, so nothing is removed
RemoveEventListener_Other(list, id) == list

\* RemoveEventListener with a fault: every message listener is dropped
RemoveEventListener_All(list, id) == <<>>

\* window.removeEventListener("message", listener)
RemoveEventListener(list, id) == SelectSeq(list, LAMBDA x : x # id)

\* the listener closure of the per-action onNuiMessage(action, handler): it
\* compares the action and has no test of its own for an empty one
ListenerPerAction(sub, payload) ==
    IF ~Truthy(payload) \/ ~TypeofObject(payload) THEN <<>>
    ELSE IF ActionOf(payload) # sub.actionOrHandler THEN <<>>
    ELSE <<[handler |-> sub.handler.name, args |-> <<DataOf(payload)>>]>>

InList(list, id) == \E i \in 1..Len(list) : list[i] = id

\* onNuiMessage with a fault: the function put on the window is the same
\* for the same action and handler, and the window keeps a function once
onNuiMessage_SharedRegistration(actionOrHandler, handler) ==
    /\ Len(subs) < MaxSubs
    /\ subs' = Append(subs, [actionOrHandler |-> actionOrHandler,
                             handler |-> handler, cancelled |-> FALSE])
    /\ listeners' =
          IF \E s \in 1..Len(subs) :
                /\ InList(listeners, s)
                /\ subs[s].actionOrHandler = actionOrHandler
                /\ subs[s].handler = handler
          THEN listeners
          ELSE AddEventListener(listeners, Len(subs) + 1)
    /\ UNCHANGED <<current, pending, invoked, delivered, fetchVars, localeVars, formatVars>>

\* onNuiMessage(action, handler) and onNuiMessage(handler)
onNuiMessage(actionOrHandler, handler) ==
    /\ Len(subs) < MaxSubs
    /\ subs' = Append(subs, [actionOrHandler |-> actionOrHandler,
                             handler |-> handler, cancelled |-> FALSE])
    /\ listeners' = AddEventListener(listeners, Len(subs) + 1)
    /\ UNCHANGED <<current, pending, invoked, delivered, fetchVars, localeVars, formatVars>>

\* the function onNuiMessage returned for registration s is called
Unsubscribe(s) ==
    /\ s \in 1..Len(subs)
    /\ listeners' = RemoveEventListener(listeners, s)
    /\ subs' = [subs EXCEPT ![s].cancelled = TRUE]
    /\ UNCHANGED <<current, pending, invoked, delivered, fetchVars, localeVars, formatVars>>

\* the host posts a message: the window starts dispatching a message event
\* to the listeners registered at that moment
PostMessage(payload) ==
    /\ pending = <<>>
    /\ delivered < MaxMessages
    /\ current' = [payload |-> payload, targets |-> listeners]
    /\ pending' = listeners
    /\ invoked' = <<>>
    /\ delivered' = delivered + 1
    /\ UNCHANGED <<subs, listeners, fetchVars, localeVars, formatVars>>

\* the dispatch reaches its next listener; one removed since the dispatch
\* began is passed over
InvokeListener ==
    /\ pending # <<>>
    /\ LET s == Head(pending)
           made == Listener(subs[s], current.payload)
       IN  invoked' =
             IF InList(listeners, s)
             THEN invoked \o [i \in 1..Len(made) |->
                                [sub |-> s, handler |-> made[i].handler,
                                 args |-> made[i].args]]
             ELSE invoked
    /\ pending' = Tail(pending)
    /\ UNCHANGED <<subs, listeners, current, delivered, fetchVars, localeVars, formatVars>>

\* the per-action onNuiMessage(action, handler)
onNuiMessagePerAction(action, handler) ==
    /\ Len(subs) < MaxSubs
    /\ subs' = Append(subs, [actionOrHandler |-> action,
                             handler |-> handler, cancelled |-> FALSE])
    /\ listeners' = AddEventListener(listeners, Len(subs) + 1)
    /\ UNCHANGED <<current, pending, invoked, delivered, fetchVars, localeVars, formatVars>>

\* the dispatch reaches its next listener, a closure of the per-action
\* onNuiMessage
InvokeListenerPerAction ==
    /\ pending # <<>>
    /\ LET s == Head(pending)
           made == ListenerPerAction(subs[s], current.payload)
       IN  invoked' =
             IF InList(listeners, s)
             THEN invoked \o [i \in 1..Len(made) |->
                                [sub |-> s, handler |-> made[i].handler,
                                 args |-> made[i].args]]
             ELSE invoked
    /\ pending' = Tail(pending)
    /\ UNCHANGED <<subs, listeners, current, delivered, fetchVars, localeVars, formatVars>>

ListenerInit ==
    /\ subs = <<>>
    /\ listeners = <<>>
    /\ current = NoEvent
    /\ pending = <<>>
    /\ invoked = <<>>
    /\ delivered = 0

\* --------------------------------------------------- locales: input sets

\* tables one extendLocales or mergeLocales call is given
MaxRecords == 2

\* A string is the sequence of its characters; Text is a string as a value
\* held in a table.  A table is an object of its own: heap[a] maps the keys
\* the object holds to a string, null, or the address of a nested table.
Text(chars) == [t |-> "str", chars |-> chars]
Ref(a) == [t |-> "ref", a |-> a]
EmptyObject == <<>>

\* the tables the caller builds and passes in:
\*   1: { a: { a: "X", b: "%s!" }, b: "Y" }      (nested table at 2)
\*   3: { a: { b: "Z" } }                        (nested table at 4)
\*   5: { a: "Y" }
\*   6: { a: null, b: { a: "" } }                (nested table at 7)
InputHeap ==
    << (<<"a">> :> Ref(2)) @@ (<<"b">> :> Text(<<"Y">>)),
       (<<"a">> :> Text(<<"X">>)) @@ (<<"b">> :> Text(<<"%", "s", "!">>)),
       (<<"a">> :> Ref(4)),
       (<<"b">> :> Text(<<"Z">>)),
       (<<"a">> :> Text(<<"Y">>)),
       (<<"a">> :> Null) @@ (<<"b">> :> Ref(7)),
       (<<"a">> :> Text(<<>>)) >>
InputAddrs == 1..Len(InputHeap)
InputRoots == {1, 3, 5, 6}

\* the argument lists of a variadic call: up to MaxRecords input tables
RECURSIVE SeqsUpTo(_, _)
SeqsUpTo(S, n) ==
    IF n = 0 THEN {<<>>}
    ELSE LET shorter == SeqsUpTo(S, n - 1)
         IN  shorter \cup {Append(q, x) : q \in shorter, x \in S}
RecordLists == SeqsUpTo(InputRoots, MaxRecords)

\* keys a translation is asked for: "a", "b", "a.a", "a.b", "b.a", "a.a.a",
\* "c", "a.c", "", "a.", ".a", "a..b"
QueryKeys ==
    { <<"a">>, <<"b">>, <<"a", ".", "a">>, <<"a", ".", "b">>, <<"b", ".", "a">>,
      <<"a", ".", "a", ".", "a">>, <<"c">>, <<"a", ".", "c">>, <<>>,
      <<"a", ".">>, <<".", "a">>, <<"a", ".", ".", "b">> }

\* the fallbacks a translation is asked with: "Hi" and "%s?"
Fallbacks == {<<"H", "i">>, <<"%", "s", "?">>}

\* format arguments: strings, numbers (whole, or in tenths), booleans, null
\* and undefined
Bool(b) == [t |-> "bool", b |-> b]
Tenths(n) == [t |-> "tenths", n |-> n]
NaN == [t |-> "nan"]

\* the argument lists a translation is asked with: none, ("N"), (7, null)
ArgLists == {<<>>, <<Text(<<"N">>)>>, <<Num(7), Null>>}

\* --------------------------------------------- formatter: input sets

\* pieces a template is put together from, and arguments luaFormat is given
MaxPieces == 3
MaxArgs == 2

\* the pieces: the four placeholders that use an argument, "%%", a "%" with
\* another character after it, and a plain character.  Each piece that
\* begins with "%" is two characters long, so the pieces of a template are
\* what a left-to-right scan for "%" and its next character finds.
Placeholders == {<<"%", "s">>, <<"%", "d">>, <<"%", "i">>, <<"%", "f">>}
Pieces == Placeholders \cup {<<"%", "%">>, <<"%", "x">>, <<"a">>}

\* the templates, as their pieces: up to MaxPieces pieces, or fewer and a
\* single "%" at the end
PieceLists ==
    SeqsUpTo(Pieces, MaxPieces)
        \cup {Append(q, <<"%">>) : q \in SeqsUpTo(Pieces, MaxPieces - 1)}

\* the template a list of pieces spells
RECURSIVE Flatten(_)
Flatten(pieces) ==
    IF pieces = <<>> THEN <<>> ELSE Head(pieces) \o Flatten(Tail(pieces))

\* argument values: "ab", -3.9, null, undefined, NaN, true
FormatArgs == {Text(<<"a", "b">>), Tenths(-39), Null, Undefined, NaN, Bool(TRUE)}
FormatArgLists == SeqsUpTo(FormatArgs, MaxArgs)

NoFormat == [pieces |-> <<>>, args |-> <<>>, result |-> Undefined]

\* ------------------------------------------------- formatter: the code

DigitChar(d) == <<"0", "1", "2", "3", "4", "5", "6", "7", "8", "9">>[d + 1]
IsDigit(c) == \E d \in 0..9 : DigitChar(d) = c
DigitValue(c) == CHOOSE d \in 0..9 : DigitChar(d) = c

\* the decimal digits of a whole number n >= 0
RECURSIVE Digits(_)
Digits(n) == IF n < 10 THEN <<DigitChar(n)>>
             ELSE Digits(n \div 10) \o <<DigitChar(n % 10)>>

\* the value of a string of decimal digits
RECURSIVE DigitsValue(_)
DigitsValue(chars) ==
    IF chars = <<>> THEN 0
    ELSE 10 * DigitsValue(SubSeq(chars, 1, Len(chars) - 1))
           + DigitValue(chars[Len(chars)])

Abs(n) == IF n < 0 THEN -n ELSE n

\* Number(raw): null is 0, undefined is NaN, true is 1; the empty string is
\* 0, a string of digits is its value, a string that holds anything but
\* digits is taken as no number
ToNumber(raw) ==
    CASE raw.t = "num" -> raw
      [] raw.t = "tenths" -> raw
      [] raw.t = "bool" -> Num(IF raw.b THEN 1 ELSE 0)
      [] raw.t = "null" -> Num(0)
      [] raw.t = "str" ->
            IF \A i \in 1..Len(raw.chars) : IsDigit(raw.chars[i])
            THEN Num(DigitsValue(raw.chars)) ELSE NaN
      [] OTHER -> NaN

\* Math.floor(num)
Floor(num) == IF num.t = "tenths" THEN Num(num.n \div 10) ELSE num

\* String(value)
JsString(value) ==
    CASE value.t = "str" -> value.chars
      [] value.t = "num" ->
            (IF value.n < 0 THEN <<"-">> ELSE <<>>) \o Digits(Abs(value.n))
      [] value.t = "tenths" ->
            (IF value.n < 0 THEN <<"-">> ELSE <<>>) \o Digits(Abs(value.n) \div 10)
                \o <<".">> \o Digits(Abs(value.n) % 10)
      [] value.t = "bool" ->
            IF value.b THEN <<"t", "r", "u", "e">> ELSE <<"f", "a", "l", "s", "e">>
      [] value.t = "null" -> <<"n", "u", "l", "l">>
      [] value.t = "nan" -> <<"N", "a", "N">>
      [] OTHER -> <<"u", "n", "d", "e", "f", "i", "n", "e", "d">>

\* args[argIndex], argIndex counted from 0: undefined past the end
ArgAt(args, argIndex) ==
    IF argIndex + 1 \in 1..Len(args) THEN args[argIndex + 1] ELSE Undefined

\* the switch of luaFormat's callback, for one of %s %d %i %f and its argument
\* Convert with a fault: %s writes String(raw) even for null and undefined
Convert_NullAsText(specifier, raw) ==
    CASE specifier = "s" -> JsString(raw)
      [] specifier \in {"d", "i"} ->
            LET num == ToNumber(raw)
            IN  JsString(IF num = NaN THEN Num(0) ELSE Floor(num))
      [] specifier = "f" ->
            LET num == ToNumber(raw)
            IN  JsString(IF num = NaN THEN Num(0) ELSE num)

Convert(specifier, raw) ==
    CASE specifier = "s" ->
            JsString(IF raw.t \in {"null", "undefined"} THEN Text(<<>>) ELSE raw)
      [] specifier \in {"d", "i"} ->
            LET num == ToNumber(raw)
            IN  JsString(IF num = NaN THEN Num(0) ELSE Floor(num))
      [] specifier = "f" ->
            LET num == ToNumber(raw)
            IN  JsString(IF num = NaN THEN Num(0) ELSE num)

\* template.replace(/%([sdfi%])/g, callback): the matches are taken left to
\* right and do not overlap; argIndex is the number of arguments used so far
RECURSIVE Replace_PercentConsumes(_, _, _)
\* Replace with a fault: "%%" uses up an argument as well
Replace_PercentConsumes(template, args, argIndex) ==
    IF template = <<>> THEN <<>>
    ELSE IF /\ Len(template) >= 2
            /\ template[1] = "%"
            /\ template[2] \in {"s", "d", "f", "i", "%"}
    THEN LET rest == SubSeq(template, 3, Len(template))
         IN  IF template[2] = "%"
             THEN <<"%">> \o Replace_PercentConsumes(rest, args, argIndex + 1)
             ELSE Convert(template[2], ArgAt(args, argIndex))
                    \o Replace_PercentConsumes(rest, args, argIndex + 1)
    ELSE <<template[1]>> \o Replace_PercentConsumes(Tail(template), args, argIndex)

RECURSIVE Replace(_, _, _)
Replace(template, args, argIndex) ==
    IF template = <<>> THEN <<>>
    ELSE IF /\ Len(template) >= 2
            /\ template[1] = "%"
            /\ template[2] \in {"s", "d", "f", "i", "%"}
    THEN LET rest == SubSeq(template, 3, Len(template))
         IN  IF template[2] = "%" THEN <<"%">> \o Replace(rest, args, argIndex)
             ELSE Convert(template[2], ArgAt(args, argIndex))
                    \o Replace(rest, args, argIndex + 1)
    ELSE <<template[1]>> \o Replace(Tail(template), args, argIndex)

\* luaFormat(template, ...args)
luaFormat(template, args) == Replace(template, args, 0)

\* ---------------------------------------------------- locales: the code

\* record[key]: a key the object does not hold reads as undefined.  (A name
\* inherited from Object.prototype reads as a function or as the prototype
\* object, neither of which holds a string; resolveKey ends in undefined for
\* it just as for a missing key.)
GetKey(object, key) == IF key \in DOMAIN object THEN object[key] ELSE Undefined

\* key.split("."): the segments between the dots, empty ones included
RECURSIVE Split(_)
Split(key) ==
    IF \A i \in 1..Len(key) : key[i] # "." THEN <<key>>
    ELSE LET dot == CHOOSE i \in 1..Len(key) :
                        key[i] = "." /\ \A j \in 1..(i - 1) : key[j] # "."
         IN  <<SubSeq(key, 1, dot - 1)>> \o Split(SubSeq(key, dot + 1, Len(key)))

\* typeof current === "object" && current !== null
IsTable(v) == v.t = "ref"

RECURSIVE Walk(_, _, _)

\* Walk with a fault: a string or null met before the last segment is taken
\* as the value found
Walk_StopsAtLeaf(h, value, segments) ==
    IF segments = <<>> THEN value
    ELSE IF ~IsTable(value) THEN value
    ELSE LET next == GetKey(h[value.a], Head(segments))
         IN  IF next = Undefined THEN Undefined
             ELSE Walk(h, next, Tail(segments))

\* the loop of resolveKey over the segments still to walk
Walk(h, value, segments) ==
    IF segments = <<>> THEN value
    ELSE IF ~IsTable(value) THEN Undefined
    ELSE LET next == GetKey(h[value.a], Head(segments))
         IN  IF next = Undefined THEN Undefined
             ELSE Walk(h, next, Tail(segments))

\* resolveKey with a fault: an empty string at the path counts as missing
resolveKey_EmptyIsMissing(h, locales, key) ==
    LET found == Walk(h, Ref(locales), Split(key))
    IN  IF found.t = "str" /\ found.chars # <<>> THEN found ELSE Undefined

\* resolveKey(locales, key): the string at the dotted path, or undefined
resolveKey(h, locales, key) ==
    LET found == Walk(h, Ref(locales), Split(key))
    IN  IF found.t = "str" THEN found ELSE Undefined

\* result[key] = value, on the object at address a
Put(h, a, key, value) ==
    [h EXCEPT ![a] = [k \in DOMAIN @ \cup {key} |-> IF k = key THEN value ELSE @[k]]]

RECURSIVE mergeLocales(_, _), MergeRecord(_, _, _, _)

\* MergeEntry with a fault: the incoming value always replaces what is there
MergeEntry_Shallow(h, result, key, value) == Put(h, result, key, value)

\* MergeEntry with a fault: a key that is already there keeps what it holds
\* unless both values are tables
MergeEntry_FirstWins(h, result, key, value) ==
    LET existing == GetKey(h[result], key)
    IN  IF IsTable(value) /\ IsTable(existing)
        THEN LET m == mergeLocales(h, <<existing.a, value.a>>)
             IN  Put(m.heap, result, key, Ref(m.result))
        ELSE IF existing # Undefined THEN h
        ELSE Put(h, result, key, value)

\* MergeEntry with a fault: an incoming table is merged into the table that
\* is there, in place
MergeEntry_InPlace(h, result, key, value) ==
    LET existing == GetKey(h[result], key)
    IN  IF IsTable(value) /\ IsTable(existing)
        THEN MergeRecord(h, existing.a, value.a, DOMAIN h[value.a])
        ELSE Put(h, result, key, value)

\* the body of mergeLocales's inner loop, for one [key, value] entry: two
\* non-null objects are merged by a call of their own, into a new table;
\* anything else is stored as it is, a nested table by reference
MergeEntry(h, result, key, value) ==
    LET existing == GetKey(h[result], key)
    IN  IF IsTable(value) /\ IsTable(existing)
        THEN LET m == mergeLocales(h, <<existing.a, value.a>>)
             IN  Put(m.heap, result, key, Ref(m.result))
        ELSE Put(h, result, key, value)

\* for (const [key, value] of Object.entries(record)), keys being the entries
\* still to come; the keys of one object are distinct, so their order does
\* not show in the outcome
MergeRecord(h, result, record, keys) ==
    IF keys = {} THEN h
    ELSE LET key == CHOOSE k \in keys : TRUE
         IN  MergeRecord(MergeEntry(h, result, key, h[record][key]),
                         result, record, keys \ {key})

\* for (const record of records)
RECURSIVE MergeRecords(_, _, _)
MergeRecords(h, result, records) ==
    IF records = <<>> THEN h
    ELSE MergeRecords(MergeRecord(h, result, Head(records), DOMAIN h[Head(records)]),
                      result, Tail(records))

\* mergeLocales(...records): a new object, filled record by record; the heap
\* it leaves and the address of the object it returns
mergeLocales(h, records) ==
    LET result == Len(h) + 1
    IN  [heap |-> MergeRecords(Append(h, EmptyObject), result, records),
         result |-> result]

\* the value of a table: its keys, with each nested table's value in place
Table(m) == [t |-> "table", m |-> m]
RECURSIVE Deref(_, _)
Deref(h, a) ==
    [k \in DOMAIN h[a] |->
        IF IsTable(h[a][k]) THEN Table(Deref(h, h[a][k].a)) ELSE h[a][k]]

\* the objects reachable from the one at address a
RECURSIVE LiveFrom(_, _)
LiveFrom(h, a) ==
    {a} \cup UNION {LiveFrom(h, h[a][k].a) : k \in {x \in DOMAIN h[a] : IsTable(h[a][x])}}

\* Objects nothing refers to any more are dropped and the rest keep their
\* order: the caller's tables stay where they are, the objects that make up
\* the table at root follow.
NewAddr(keep, a) == Cardinality({b \in keep : b <= a})
Collect(h, root) ==
    LET keep == InputAddrs \cup LiveFrom(h, root)
        moved(object) ==
            [k \in DOMAIN object |->
                IF IsTable(object[k]) THEN Ref(NewAddr(keep, object[k].a))
                ELSE object[k]]
    IN  [heap |-> [i \in 1..Cardinality(keep) |->
                     moved(h[CHOOSE a \in keep : NewAddr(keep, a) = i])],
         result |-> NewAddr(keep, root)]

\* InitialLocales with a fault: the registry starts with an entry in it
InitialLocales_Seeded == <<"a">> :> Text(<<"X">>)

\* let _locales: LocaleRecord = {}
InitialLocales == EmptyObject

NoOp == [op |-> "none", records |-> <<>>, touched |-> {}, result |-> EmptyObject]
NoCall == [fn |-> "none", locales |-> 0, key |-> <<>>, fallback |-> <<>>,
           args |-> <<>>, result |-> <<>>]

LocaleInit ==
    /\ heap = Append(InputHeap, InitialLocales)
    /\ _locales = Len(InputHeap) + 1
    /\ lastOp = NoOp
    /\ lastCall = NoCall

\* the objects that were there before a call and hold something else after it
Touched(h, after) == {a \in 1..Len(h) : after[a] # h[a]}

\* What a registry or merge call leaves: m is the heap at its end and the
\* table it made or was given, root the table _locales refers to from now on.
Outcome(op, records, m, root) ==
    LET c == Collect(m.heap, root)
    IN  [heap |-> c.heap, locales |-> c.result,
         lastOp |-> [op |-> op, records |-> records,
                     touched |-> Touched(heap, m.heap),
                     result |-> Deref(m.heap, m.result)]]

Returns(out) ==
    /\ heap' = out.heap
    /\ _locales' = out.locales
    /\ lastOp' = out.lastOp

\* registerLocales with a fault: the table is merged into the current one
registerLocales_Merges(locales) ==
    /\ LET m == mergeLocales(heap, <<_locales, locales>>)
       IN  Returns(Outcome("register", <<locales>>, m, m.result))
    /\ lastCall' = NoCall
    /\ UNCHANGED <<fetchVars, listenerVars, formatVars>>

\* registerLocales(locales): _locales = locales
registerLocales(locales) ==
    /\ Returns(Outcome("register", <<locales>>,
                       [heap |-> heap, result |-> locales], locales))
    /\ lastCall' = NoCall
    /\ UNCHANGED <<fetchVars, listenerVars, formatVars>>

\* extendLocales with a fault: the current table is left out of the merge
extendLocales_NoCurrent(records) ==
    /\ LET m == mergeLocales(heap, records)
       IN  Returns(Outcome("extend", records, m, m.result))
    /\ lastCall' = NoCall
    /\ UNCHANGED <<fetchVars, listenerVars, formatVars>>

\* extendLocales with a fault: only the first table given is merged in
extendLocales_FirstOnly(records) ==
    /\ LET m == mergeLocales(heap, <<_locales>> \o
                                (IF records = <<>> THEN <<>> ELSE <<Head(records)>>))
       IN  Returns(Outcome("extend", records, m, m.result))
    /\ lastCall' = NoCall
    /\ UNCHANGED <<fetchVars, listenerVars, formatVars>>

\* extendLocales(...records): _locales = mergeLocales(_locales, ...records)
extendLocales(records) ==
    /\ LET m == mergeLocales(heap, <<_locales>> \o records)
       IN  Returns(Outcome("extend", records, m, m.result))
    /\ lastCall' = NoCall
    /\ UNCHANGED <<fetchVars, listenerVars, formatVars>>

\* the caller calls mergeLocales(...records) and keeps no table of the result
mergeLocalesCall(records) ==
    /\ Returns(Outcome("merge", records, mergeLocales(heap, records), _locales))
    /\ lastCall' = NoCall
    /\ UNCHANGED <<fetchVars, listenerVars, formatVars>>

\* TranslatorFn with a fault: a found template is formatted even when no
\* argument was given
TranslatorFn_AlwaysFormats(h, locales, key, fallback, args) ==
    LET template == resolveKey(h, locales, key)
    IN  IF template = Undefined THEN fallback
        ELSE luaFormat(template.chars, args)

\* the function createTranslator({ locales }) returns, called while the
\* tables are as in h
TranslatorFn(h, locales, key, fallback, args) ==
    LET template == resolveKey(h, locales, key)
    IN  IF template = Undefined THEN fallback
        ELSE IF Len(args) > 0 THEN luaFormat(template.chars, args)
             ELSE template.chars

\* _U with a fault: the fallback is formatted like a template
_U_FormatsFallback(h, locales, key, fallback, args) ==
    LET template == resolveKey(h, locales, key)
    IN  IF template = Undefined
        THEN IF Len(args) > 0 THEN luaFormat(fallback, args) ELSE fallback
        ELSE IF Len(args) > 0 THEN luaFormat(template.chars, args)
             ELSE template.chars

\* _U(key, fallback, ...args), called while the tables are as in h and
\* _locales is the table at locales
_U(h, locales, key, fallback, args) ==
    LET template == resolveKey(h, locales, key)
    IN  IF template = Undefined THEN fallback
        ELSE IF Len(args) > 0 THEN luaFormat(template.chars, args)
             ELSE template.chars

\* a call of a translator made by createTranslator for the table at locales
CallTranslator(locales, key, fallback, args) ==
    /\ lastCall' = [fn |-> "translator", locales |-> locales, key |-> key,
                    fallback |-> fallback, args |-> args,
                    result |-> TranslatorFn(heap, locales, key, fallback, args)]
    /\ UNCHANGED <<heap, _locales, lastOp, fetchVars, listenerVars, formatVars>>

\* a call of _U
CallU(key, fallback, args) ==
    /\ lastCall' = [fn |-> "_U", locales |-> _locales, key |-> key,
                    fallback |-> fallback, args |-> args,
                    result |-> _U(heap, _locales, key, fallback, args)]
    /\ UNCHANGED <<heap, _locales, lastOp, fetchVars, listenerVars, formatVars>>

\* no luaFormat call of the caller's own is followed
FormatInit == lastFormat = NoFormat

\* the caller calls luaFormat(template, ...args) with the template and the
\* arguments it has at hand
luaFormatCall ==
    /\ lastFormat.result = Undefined
    /\ lastFormat' = [lastFormat EXCEPT
                        !.result = Text(luaFormat(Flatten(lastFormat.pieces),
                                                  lastFormat.args))]
    /\ UNCHANGED <<fetchVars, listenerVars, localeVars>>

\* ---------------------------------------------------------- specification

\* createFetchNui(factoryOptions): the factory's options are fixed from then on
createFetchNui ==
    /\ debug \in BOOLEAN
    /\ mockData \in MockTables
    /\ call = [d \in Dispatches |-> IdleCall]

Init == createFetchNui /\ ListenerInit /\ LocaleInit /\ FormatInit

Next ==
    \/ \E d \in DOMAIN call, ev \in Events, dat \in Payloads, timeout \in Timeouts :
          fetchNui(d, ev, dat, timeout)
    \/ \E d \in DOMAIN call, status \in Statuses : TransportRespond(d, status)
    \/ \E d \in DOMAIN call, error \in TransportErrors : TransportFail(d, error)
    \/ \E d \in DOMAIN call, body \in Bodies : BodyDone(d, body)
    \/ \E d \in DOMAIN call, error \in TransportErrors : BodyFail(d, error)
    \/ \E d \in DOMAIN call : TimerFire(d)
    \/ Tick

Spec == Init /\ [][Next]_vars

\* the listener on its own: no fetchNui call is made
InitListener ==
    /\ debug = FALSE
    /\ mockData = NoMockData
    /\ call = [d \in Dispatches |-> IdleCall]
    /\ ListenerInit
    /\ LocaleInit
    /\ FormatInit

NextListener ==
    \/ \E a \in Actions, h \in Handlers : onNuiMessage(Str(a), Fn(h))
    \/ \E h \in Handlers : onNuiMessage(Fn(h), Undefined)
    \/ \E s \in 1..MaxSubs : Unsubscribe(s)
    \/ \E payload \in MessagePayloads : PostMessage(payload)
    \/ InvokeListener

SpecListener == InitListener /\ [][NextListener]_vars

\* the per-action onNuiMessage on its own; the action subscribed for is any
\* string, the empty one included
ActionsPerAction == Actions \cup {""}

NextPerAction ==
    \/ \E a \in ActionsPerAction, h \in Handlers :
          onNuiMessagePerAction(Str(a), Fn(h))
    \/ \E s \in 1..MaxSubs : Unsubscribe(s)
    \/ \E payload \in MessagePayloads : PostMessage(payload)
    \/ InvokeListenerPerAction

SpecPerAction == InitListener /\ [][NextPerAction]_vars

\* the locale registry on its own
InitLocale ==
    /\ debug = FALSE
    /\ mockData = NoMockData
    /\ call = [d \in Dispatches |-> IdleCall]
    /\ ListenerInit
    /\ LocaleInit
    /\ FormatInit

NextLocale ==
    \/ \E locales \in InputRoots : registerLocales(locales)
    \/ \E records \in RecordLists : extendLocales(records)
    \/ \E records \in RecordLists : mergeLocalesCall(records)

SpecLocale == InitLocale /\ [][NextLocale]_vars

\* translators on their own: tables are registered and translations asked for
NextTranslate ==
    \/ \E locales \in InputRoots : registerLocales(locales)
    \/ \E locales \in InputRoots, key \in QueryKeys, fallback \in Fallbacks,
          args \in ArgLists : CallTranslator(locales, key, fallback, args)
    \/ \E key \in QueryKeys, fallback \in Fallbacks, args \in ArgLists :
          CallU(key, fallback, args)

SpecTranslate == InitLocale /\ [][NextTranslate]_vars

\* the formatter on its own: the caller has a template and arguments at hand
\* and calls luaFormat with them
InitFormat ==
    /\ debug = FALSE
    /\ mockData = NoMockData
    /\ call = [d \in Dispatches |-> IdleCall]
    /\ ListenerInit
    /\ LocaleInit
    /\ lastFormat \in [pieces : PieceLists, args : FormatArgLists, result : {Undefined}]

NextFormat == luaFormatCall

SpecFormat == InitFormat /\ [][NextFormat]_vars

\* dispatches the caller may have in flight at once
MaxInFlight == 2

\* several dispatches at once: the factory has no mock table, so every call
\* takes the real path, and the caller starts a call while others wait
InitInFlight ==
    /\ debug = FALSE
    /\ mockData = NoMockData
    /\ call = [d \in 1..MaxInFlight |-> IdleCall]
    /\ ListenerInit
    /\ LocaleInit
    /\ FormatInit

NextInFlight ==
    \/ \E d \in DOMAIN call, timeout \in Timeouts :
          fetchNui(d, "ping", Undefined, timeout)
    \/ \E d \in DOMAIN call, status \in Statuses : TransportRespond(d, status)
    \/ \E d \in DOMAIN call, error \in TransportErrors : TransportFail(d, error)
    \/ \E d \in DOMAIN call, body \in Bodies : BodyDone(d, body)
    \/ \E d \in DOMAIN call, error \in TransportErrors : BodyFail(d, error)
    \/ \E d \in DOMAIN call : TimerFire(d)
    \/ Tick

SpecInFlight == InitInFlight /\ [][NextInFlight]_vars

\* ------------------------------------------------------ dispatcher claims

\* a call that took the real path: it got past the mock lookup
RealPath(c) == c.pc # "idle" /\ ~(mockData.configured /\ In(c.event, mockData))

\* the mock table holds an entry of its own for the call's event
Registered(c) == mockData.configured /\ c.event \in DOMAIN mockData.own

IsTimeoutError(o) ==
    o.kind = "rejected" /\ o.error.kind = "Error" /\ o.error.what = "timeout"

\* C1 as stated: for every numeric options.timeout t, a real-path call whose
\* transport has not settled when t ms have elapsed is aborted, so none is
\* still awaiting the transport, signal untriggered, more than t ms on.
C1_EveryNumericTimeout ==
    \A d \in DOMAIN call :
        (RealPath(call[d]) /\ call[d].timeout.t = "num" /\ InFlight(call[d])
            /\ call[d].elapsed > call[d].timeout.n)
        => call[d].controller = "aborted"

\* C1 amended: for every options.timeout t that is a non-zero number, a
\* real-path call is never still awaiting the transport more than t ms on;
\* once its timer has run, the abort signal is triggered and the call has
\* failed with the timeout error naming its event and t.  With a timeout of
\* 0 no controller is made and no timer is armed.
C1_TruthyTimeoutAborts ==
    \A d \in DOMAIN call :
        RealPath(call[d]) =>
            IF call[d].timeout.t = "num" /\ call[d].timeout.n # 0
            THEN /\ InFlight(call[d]) => call[d].elapsed <= call[d].timeout.n
                 /\ call[d].timeoutId # "none"
                 /\ call[d].timeoutId = "fired" =>
                       /\ call[d].controller = "aborted"
                       /\ call[d].pc = "done"
                       /\ call[d].outcome =
                            Rejected(TimeoutError(call[d].event, call[d].timeout))
            ELSE call[d].timeoutId = "none" /\ call[d].controller = "none"

\* a call given timeout 1 issued its request, its timer fired, and it failed
\* with the timeout error
C1_Witness ==
    \E d \in DOMAIN call :
        /\ call[d].timeout = Num(1)
        /\ Len(call[d].requests) = 1
        /\ call[d].timeoutId = "fired"
        /\ call[d].controller = "aborted"
        /\ IsTimeoutError(call[d].outcome)

\* C2: a settled call holds no pending timer, and its abort callback has not
\* run after it settled.
C2_SettledHasNoPendingTimer ==
    \A d \in DOMAIN call :
        call[d].pc = "done" => call[d].timeoutId # "armed" /\ ~call[d].lateAbort

\* a real-path call that armed a timer settled before the timer ran, by a
\* non-success status, and the timer was cleared
C2_Witness ==
    \E d \in DOMAIN call :
        /\ call[d].pc = "done"
        /\ call[d].timeoutId = "cleared"
        /\ call[d].status = 404
        /\ call[d].controller = "live"

\* C3 as stated: a call fails with the timeout error only if it was given a
\* timeout and its timer ran before the transport call settled.
C3_TimeoutErrorOnlyAfterTimer ==
    \A d \in DOMAIN call :
        IsTimeoutError(call[d].outcome) =>
            Truthy(call[d].timeout) /\ call[d].timeoutId = "fired"

\* C4: a call whose event has an entry in the mock table, whatever the
\* entry's value, issues no transport call and arms no timer.
C4_MockPathNoTransportNoTimer ==
    \A d \in DOMAIN call :
        (call[d].pc # "idle" /\ Registered(call[d])) =>
            /\ call[d].requests = <<>>
            /\ call[d].timeoutId = "none"
            /\ call[d].controller = "none"

\* a call for the event registered with null, given a timeout, has ended
\* without a request
C4_Witness ==
    \E d \in DOMAIN call :
        /\ Registered(call[d])
        /\ mockData.own[call[d].event] = Null
        /\ call[d].timeout = Num(1)
        /\ call[d].pc = "done"
        /\ call[d].requests = <<>>

\* C5 as stated, for payloads that serialize: a call whose event has no
\* entry registered in the mock table, or made with no mock table, issues
\* exactly one transport call.
C5_UnregisteredIssuesOneCall ==
    \A d \in DOMAIN call :
        (call[d].pc # "idle" /\ ~Registered(call[d]) /\ CanStringify(call[d].data))
        => Len(call[d].requests) = 1

\* C6: on the mock path the result is the entry itself when it is no
\* function (null included), and otherwise what the entry returns when
\* called, once, with the call's payload.
C6_MockResultFromEntry ==
    \A d \in DOMAIN call :
        (call[d].pc # "idle" /\ Registered(call[d])
            /\ mockData.own[call[d].event] # Undefined)
        => LET entry == mockData.own[call[d].event]
           IN  /\ call[d].pc = "done"
               /\ IF entry.t = "fn"
                  THEN /\ call[d].mockCalls = <<call[d].data>>
                       /\ call[d].outcome = Resolved(Invoke(entry, call[d].data))
                  ELSE /\ call[d].mockCalls = <<>>
                       /\ call[d].outcome = Resolved(entry)

\* the function entry was called with the payload 5 and its return value is
\* the result
C6_Witness ==
    \E d \in DOMAIN call :
        /\ Registered(call[d])
        /\ call[d].event = "echo"
        /\ call[d].mockCalls = <<Num(5)>>
        /\ call[d].outcome = Resolved([t |-> "echoed", of |-> Num(5)])

\* C7: a call whose event is registered in the mock table with the value
\* undefined fails with the configuration error naming the event; it issues
\* no transport call and resolves with nothing.
C7_UndefinedMockIsConfigError ==
    \A d \in DOMAIN call :
        (call[d].pc # "idle" /\ Registered(call[d])
            /\ mockData.own[call[d].event] = Undefined)
        => /\ call[d].pc = "done"
           /\ call[d].outcome = Rejected(MockUndefinedError(call[d].event))
           /\ call[d].requests = <<>>

C7_Witness ==
    \E d \in DOMAIN call :
        /\ Registered(call[d])
        /\ call[d].event = "broken"
        /\ call[d].outcome.kind = "rejected"

\* C8: once the transport has answered with a status outside 200..299, the
\* call has failed with the transport error naming its event and that
\* status, which is not the timeout error, and no result is returned.
C8_NonSuccessStatusIsTransportError ==
    \A d \in DOMAIN call :
        (call[d].status # 0 /\ call[d].status \notin 200..299)
        => /\ call[d].pc = "done"
           /\ call[d].outcome = Rejected(HttpError(call[d].event, call[d].status))
           /\ ~IsTimeoutError(call[d].outcome)

\* a call with a timer armed was answered 500
C8_Witness ==
    \E d \in DOMAIN call :
        /\ call[d].status = 500
        /\ call[d].timeout = Num(1)
        /\ call[d].outcome.kind = "rejected"

\* -------------------------------------------------------- listener claims

\* a notification the library accepts: a structured object carrying a
\* non-empty action name
ValidNotification(p) == p.t = "msg" /\ p.action.t = "str" /\ p.action.s # ""

\* the handler calls registration s has made for the current message event
InvocationsOf(s) == SelectSeq(invoked, LAMBDA r : r.sub = s)
CountOf(seq, s) == Len(SelectSeq(seq, LAMBDA r : r.sub = s))

\* the dispatch of the current event has got past registration s
Reached(s) == InList(current.targets, s) /\ ~InList(pending, s)

IsFiltered(sub) == sub.actionOrHandler.t = "str"

\* C9: for a filtered subscription that was registered when a valid
\* notification was dispatched and has not been cancelled, once the dispatch
\* has got past it the handler was called exactly once, with the
\* notification's data, if the action is the subscribed one, and not at all
\* otherwise, whatever other subscriptions there are; a subscription
\* registered after the dispatch began is not called for it.
C9_FilteredCalledOncePerMatch ==
    \A s \in 1..Len(subs) :
        IsFiltered(subs[s]) =>
            LET p == current.payload
                once == <<[sub |-> s, handler |-> subs[s].handler.name,
                           args |-> <<DataOf(p)>>]>>
                match == ValidNotification(p) /\ p.action = subs[s].actionOrHandler
            IN  /\ (Reached(s) /\ ~subs[s].cancelled /\ match) => InvocationsOf(s) = once
                /\ InvocationsOf(s) # <<>> =>
                      match /\ InList(current.targets, s) /\ InvocationsOf(s) = once

\* two filtered subscriptions on different actions, both active, and a fully
\* dispatched valid notification: one handler called once, the other not
C9_Witness ==
    /\ pending = <<>>
    /\ ValidNotification(current.payload)
    /\ \E s1, s2 \in 1..Len(subs) :
          /\ IsFiltered(subs[s1]) /\ IsFiltered(subs[s2])
          /\ ~subs[s1].cancelled /\ ~subs[s2].cancelled
          /\ InList(current.targets, s1) /\ InList(current.targets, s2)
          /\ subs[s1].actionOrHandler = current.payload.action
          /\ subs[s2].actionOrHandler # current.payload.action
          /\ Len(InvocationsOf(s1)) = 1
          /\ InvocationsOf(s2) = <<>>

\* C10: once the function returned for a subscription has been called, no
\* step adds a call of that subscription's handler.
C10_NoCallAfterCancel ==
    [][\A s \in 1..Len(subs) :
          subs[s].cancelled => CountOf(invoked', s) <= CountOf(invoked, s)]_vars

\* a notification dispatched in full after a subscription was cancelled, one
\* the subscription would take, reached another handler and not this one
C10_Witness ==
    /\ pending = <<>>
    /\ ValidNotification(current.payload)
    /\ invoked # <<>>
    /\ \E s \in 1..Len(subs) :
          /\ subs[s].cancelled
          /\ ~InList(current.targets, s)
          /\ IsFiltered(subs[s]) => subs[s].actionOrHandler = current.payload.action
          /\ InvocationsOf(s) = <<>>

\* the registrations a step cancels: their function is called for the first time
Cancelling == {t \in 1..Len(subs) : subs'[t].cancelled /\ ~subs[t].cancelled}

\* C11: a step that calls a subscription's cancellation function takes that
\* subscription's listener off the window and leaves each other one, same
\* action and handler or not, registered and in place; a step that calls it
\* again, or any step that cancels nothing, takes no listener off.
C11_CancelRemovesOnlyItsOwn ==
    [][/\ Cardinality(Cancelling) <= 1
       /\ SelectSeq(listeners', LAMBDA x : x <= Len(subs))
            = SelectSeq(listeners, LAMBDA x : x \notin Cancelling)]_vars

\* two subscriptions made with the same action and the same handler, one
\* cancelled and off the window, the other still registered
C11_Witness ==
    \E s, t \in 1..Len(subs) :
        /\ s # t
        /\ subs[s].actionOrHandler = subs[t].actionOrHandler
        /\ subs[s].handler = subs[t].handler
        /\ subs[s].cancelled /\ ~InList(listeners, s)
        /\ ~subs[t].cancelled /\ InList(listeners, t)

\* C12: for a catch-all subscription that was registered when a valid
\* notification was dispatched and has not been cancelled, once the dispatch
\* has got past it the handler was called exactly once, with the
\* notification's action and its data, whatever the action; and it is never
\* called in any other way.
C12_CatchAllCalledOncePerMessage ==
    \A s \in 1..Len(subs) :
        ~IsFiltered(subs[s]) =>
            LET p == current.payload
                once == <<[sub |-> s, handler |-> subs[s].actionOrHandler.name,
                           args |-> <<ActionOf(p), DataOf(p)>>]>>
            IN  /\ (Reached(s) /\ ~subs[s].cancelled /\ ValidNotification(p))
                      => InvocationsOf(s) = once
                /\ InvocationsOf(s) # <<>> =>
                      ValidNotification(p) /\ InvocationsOf(s) = once

\* a catch-all subscription and a filtered one on another action, both
\* active, and a fully dispatched valid notification: the catch-all handler
\* was called once with the action and the data, the filtered one not
C12_Witness ==
    /\ pending = <<>>
    /\ ValidNotification(current.payload)
    /\ \E s1, s2 \in 1..Len(subs) :
          /\ ~IsFiltered(subs[s1]) /\ IsFiltered(subs[s2])
          /\ ~subs[s1].cancelled /\ ~subs[s2].cancelled
          /\ subs[s2].actionOrHandler # current.payload.action
          /\ InvocationsOf(s1) =
                <<[sub |-> s1, handler |-> subs[s1].actionOrHandler.name,
                   args |-> <<current.payload.action, current.payload.data>>]>>
          /\ InvocationsOf(s2) = <<>>

\* C13: while the notification being dispatched is not a valid one (null, a
\* primitive, or an object whose action is missing or empty), no handler of
\* any subscription has been called for it.
C13_InvalidInvokesNothing ==
    ~ValidNotification(current.payload) => invoked = <<>>

\* --------------------------------------------------------- locale claims

\* the fallback the registry claims ask with
Hi == <<"H", "i">>

\* C14: whatever the calls before it, after a registerLocales(T) step _U
\* answers every key, with or without arguments, as a translator bound to T
\* does; after an extendLocales(T1..Tn) step, as one bound to
\* mergeLocales(current, T1..Tn), current being the table _U answered from
\* before the step (after registerLocales(A), that table is A).  A
\* mergeLocales call of the caller's own leaves the table _U answers from,
\* by value, as it was.
C14_GlobalFollowsLastCall ==
    [][CASE lastOp'.op = "register" ->
              \A key \in QueryKeys, args \in ArgLists :
                  _U(heap', _locales', key, Hi, args)
                    = TranslatorFn(heap, lastOp'.records[1], key, Hi, args)
         [] lastOp'.op = "extend" ->
              \A merged \in {mergeLocales(heap, <<_locales>> \o lastOp'.records)} :
                  \A key \in QueryKeys, args \in ArgLists :
                      _U(heap', _locales', key, Hi, args)
                        = TranslatorFn(merged.heap, merged.result, key, Hi, args)
         [] OTHER -> Deref(heap', _locales') = Deref(heap, _locales)]_vars

\* registerLocales(A) and then extendLocales(B), with A = table 1 and
\* B = table 3: "a.a" comes from A, "a.b" from B, formatted with the argument
C14_Witness ==
    /\ lastOp.op = "extend" /\ lastOp.records = <<3>>
    /\ \A AB \in {mergeLocales(InputHeap, <<1, 3>>)} :
          /\ Deref(heap, _locales) = Deref(AB.heap, AB.result)
          /\ \A key \in QueryKeys, args \in ArgLists :
                _U(heap, _locales, key, Hi, args)
                  = TranslatorFn(AB.heap, AB.result, key, Hi, args)
    /\ _U(heap, _locales, <<"a", ".", "a">>, Hi, <<>>) = <<"X">>
    /\ _U(heap, _locales, <<"a", ".", "b">>, Hi, <<Text(<<"N">>)>>) = <<"Z">>
    /\ _U(heap, _locales, <<"b">>, Hi, <<>>) = <<"Y">>

\* C15: after registerLocales(C), whatever was called before, _U gives a
\* key's string exactly when the key resolves to a string in C taken alone,
\* and that string; for every other key it gives the fallback.
C15_RegisterReplaces ==
    lastOp.op = "register" =>
        \A key \in QueryKeys :
            LET inC == resolveKey(InputHeap, lastOp.records[1], key)
                answer == _U(heap, _locales, key, Hi, <<>>)
            IN  IF inC = Undefined THEN answer = Hi ELSE answer = inC.chars

\* table 5, { a: "Y" }, has been registered: "a" resolves, and "b", "a.a",
\* "a.b", which other input tables hold, do not
C15_Witness ==
    /\ lastOp.op = "register" /\ lastOp.records = <<5>>
    /\ _U(heap, _locales, <<"a">>, Hi, <<>>) = <<"Y">>
    /\ \A key \in {<<"b">>, <<"a", ".", "a">>, <<"a", ".", "b">>, <<"b", ".", "a">>} :
          _U(heap, _locales, key, Hi, <<>>) = Hi

\* C16: while neither registerLocales nor extendLocales has been called, a
\* call of _U returns its fallback, whatever the key and the arguments.
C16_StartsEmpty ==
    (lastOp.op = "none" /\ lastCall.fn = "_U") => lastCall.result = lastCall.fallback

\* before any registry call, _U asked for "a.b" with an argument and the
\* fallback "%s?" returned the fallback
C16_Witness ==
    /\ lastOp.op = "none"
    /\ lastCall.fn = "_U"
    /\ lastCall.key = <<"a", ".", "b">>
    /\ lastCall.args = <<Text(<<"N">>)>>
    /\ lastCall.result = <<"%", "s", "?">>

\* record holds nothing at the path of segments and, on the way there,
\* nothing or a nested table at each proper prefix of it
LeavesAlone(h, record, segments) ==
    /\ Walk(h, Ref(record), segments) = Undefined
    /\ \A n \in 1..(Len(segments) - 1) :
          Walk(h, Ref(record), SubSeq(segments, 1, n)).t \in {"undefined", "ref"}

\* C17: an extendLocales step leaves every key that resolved to a string
\* before it, and that each table of the call leaves alone, resolving to the
\* same string after it.
C17_ExtendKeepsOtherKeys ==
    [][lastOp'.op = "extend" =>
          \A key \in QueryKeys :
              LET before == resolveKey(heap, _locales, key)
                  records == lastOp'.records
              IN  (/\ before # Undefined
                   /\ \A i \in 1..Len(records) : LeavesAlone(heap, records[i], Split(key)))
                  => resolveKey(heap', _locales', key) = before]_vars

\* table 3, { a: { b: "Z" } }, was merged into table 1: "a.b" is replaced,
\* and "a.a" beside it and "b" resolve as in table 1
C17_Witness ==
    /\ lastOp.op = "extend" /\ lastOp.records = <<3>>
    /\ resolveKey(heap, _locales, <<"a", ".", "b">>) = Text(<<"Z">>)
    /\ resolveKey(heap, _locales, <<"a", ".", "a">>) = resolveKey(InputHeap, 1, <<"a", ".", "a">>)
    /\ resolveKey(heap, _locales, <<"b">>) = resolveKey(InputHeap, 1, <<"b">>)
    /\ LeavesAlone(heap, 3, <<<<"a">>, <<"a">>>>) /\ LeavesAlone(heap, 3, <<<<"b">>>>)

\* the merge of two tables by value: a key of the incoming table whose value
\* and the accumulated one are both tables gets the merge of the two; any
\* other key of the incoming table gets the incoming value
RECURSIVE MergedValue(_, _)
MergedValue(acc, incoming) ==
    [k \in DOMAIN acc \cup DOMAIN incoming |->
        IF k \notin DOMAIN incoming THEN acc[k]
        ELSE IF k \in DOMAIN acc /\ acc[k].t = "table" /\ incoming[k].t = "table"
        THEN Table(MergedValue(acc[k].m, incoming[k].m))
        ELSE incoming[k]]

\* the left-to-right fold of tables into acc
RECURSIVE FoldValues(_, _)
FoldValues(acc, tables) ==
    IF tables = <<>> THEN acc
    ELSE FoldValues(MergedValue(acc, Head(tables)), Tail(tables))

\* C18: the table a mergeLocales(T1..Tn) call returns is, by value, the
\* left-to-right fold of T1..Tn from the empty table, and the empty table
\* when no table is given.
C18_MergeIsLeftFold ==
    lastOp.op = "merge" =>
        /\ lastOp.result =
              FoldValues(EmptyObject, [i \in 1..Len(lastOp.records) |->
                                         Deref(InputHeap, lastOp.records[i])])
        /\ lastOp.records = <<>> => lastOp.result = EmptyObject

\* mergeLocales(table 1, table 6): null has replaced the table at "a" and a
\* table has replaced the string at "b"
C18_Witness ==
    /\ lastOp.op = "merge" /\ lastOp.records = <<1, 6>>
    /\ lastOp.result = (<<"a">> :> Null)
                          @@ (<<"b">> :> Table(<<"a">> :> Text(<<>>)))

\* C19: a mergeLocales or extendLocales call writes to no object that was
\* there before it, so each table the caller built, nested tables included,
\* and with them the table given to registerLocales earlier, holds by value
\* what it held when it was built.
C19_InputsNotModified ==
    /\ lastOp.touched = {}
    /\ \A a \in InputAddrs : heap[a] = InputHeap[a]
    /\ \A root \in InputRoots : Deref(heap, root) = Deref(InputHeap, root)

\* table 1 was registered and table 3 merged into it by extendLocales: the
\* merged table and its nested table at "a" are new objects, and table 1's
\* own nested table still holds "X" and "%s!"
C19_Witness ==
    /\ lastOp.op = "extend" /\ lastOp.records = <<3>>
    /\ _locales \notin InputAddrs
    /\ heap[_locales][<<"a">>].t = "ref"
    /\ heap[_locales][<<"a">>].a \notin InputAddrs
    /\ heap[heap[_locales][<<"a">>].a][<<"b">>] = Text(<<"Z">>)
    /\ heap[2] = (<<"a">> :> Text(<<"X">>)) @@ (<<"b">> :> Text(<<"%", "s", "!">>))

\* C20: a translator call, of a createTranslator instance or of _U, whose
\* key does not resolve to a string in the table it reads returns exactly
\* the fallback it was given, arguments or not, placeholders in the fallback
\* or not.
C20_FallbackVerbatim ==
    (/\ lastCall.fn # "none"
     /\ resolveKey(heap, lastCall.locales, lastCall.key) = Undefined)
    => lastCall.result = lastCall.fallback

\* _U, over table 1, asked for "a.c" with an argument and the fallback "%s?"
\* returned "%s?"
C20_Witness ==
    /\ lastOp.op = "register" /\ lastOp.records = <<1>>
    /\ lastCall.fn = "_U"
    /\ lastCall.key = <<"a", ".", "c">>
    /\ lastCall.args = <<Text(<<"N">>)>>
    /\ lastCall.fallback = <<"%", "s", "?">>
    /\ lastCall.result = <<"%", "s", "?">>

\* C21: a translator call, of a createTranslator instance or of _U, whose
\* key resolves to a template returns the template as it is stored when it
\* was given no argument, and luaFormat of the template and the arguments
\* when it was given one or more.
C21_TemplateOrFormatted ==
    lastCall.fn # "none" =>
        LET template == resolveKey(heap, lastCall.locales, lastCall.key)
        IN  template # Undefined =>
                IF lastCall.args = <<>> THEN lastCall.result = template.chars
                ELSE lastCall.result = luaFormat(template.chars, lastCall.args)

\* a translator bound to table 1, asked for "a.b" with no argument, returned
\* the template "%s!" with its placeholder in it
C21_Witness ==
    /\ lastCall.fn = "translator"
    /\ lastCall.locales = 1
    /\ lastCall.key = <<"a", ".", "b">>
    /\ lastCall.args = <<>>
    /\ lastCall.result = <<"%", "s", "!">>

\* segments put together again with a dot between each two
RECURSIVE Join(_)
Join(segments) ==
    IF Len(segments) = 1 THEN segments[1]
    ELSE segments[1] \o <<".">> \o Join(Tail(segments))

\* the tables that lead from the table at root along segments, the last
\* segment left out: path[i] is the table reached after i - 1 segments
IsPath(h, root, segments, path) ==
    /\ path[1] = root
    /\ \A i \in 1..(Len(segments) - 1) :
          GetKey(h[path[i]], segments[i]) = Ref(path[i + 1])

\* C22: for the table and the key of a translator call, the segments
\* resolveKey walks are the pieces of the key between its dots, and
\* resolveKey gives a string exactly when nested tables lead along all
\* segments but the last and the last of them holds that string under the
\* last segment; in every other case it gives undefined.
C22_ResolveKeyWalksThePath ==
    lastCall.fn # "none" =>
        LET segments == Split(lastCall.key)
            found == resolveKey(heap, lastCall.locales, lastCall.key)
            n == Len(segments)
            leaves == {GetKey(heap[path[n]], segments[n]) :
                          path \in {p \in [1..n -> 1..Len(heap)] :
                                       IsPath(heap, lastCall.locales, segments, p)}}
        IN  /\ n >= 1 /\ Join(segments) = lastCall.key
            /\ \A i \in 1..n : \A j \in 1..Len(segments[i]) : segments[i][j] # "."
            /\ IF \E leaf \in leaves : leaf.t = "str"
               THEN leaves = {found}
               ELSE found = Undefined

\* a translator bound to table 6, { a: null, b: { a: "" } }, asked for
\* "a.a": null is met before the last segment, and the fallback came back
C22_Witness ==
    /\ lastCall.fn = "translator"
    /\ lastCall.locales = 6
    /\ lastCall.key = <<"a", ".", "a">>
    /\ resolveKey(heap, 6, lastCall.key) = Undefined
    /\ lastCall.result = lastCall.fallback

\* ------------------------------------------------------ formatter claims

\* what a template's pieces become, piece by piece, when the placeholders
\* from the first of these pieces on are the ones after the k-th
RECURSIVE InOrder(_, _, _)
InOrder(pieces, args, k) ==
    IF pieces = <<>> THEN <<>>
    ELSE LET piece == Head(pieces)
         IN  IF piece \in Placeholders
             THEN Convert(piece[2], ArgAt(args, k)) \o InOrder(Tail(pieces), args, k + 1)
             ELSE (IF piece = <<"%", "%">> THEN <<"%">> ELSE piece)
                    \o InOrder(Tail(pieces), args, k)

\* C23: luaFormat uses its arguments strictly in order: the k-th of the
\* template's %s, %d, %i and %f, counted from the left, is replaced by the
\* k-th argument's conversion; "%%" becomes one "%" and a "%" before any
\* other character (or at the end) stays as it is, and neither of the two
\* uses an argument.
C23_ArgumentsInOrder ==
    lastFormat.result # Undefined =>
        lastFormat.result = Text(InOrder(lastFormat.pieces, lastFormat.args, 0))

\* luaFormat("%%%d%s", -3.9, "ab") has returned "%-4ab"
C23_Witness ==
    /\ lastFormat.pieces = <<(<<"%", "%">>), (<<"%", "d">>), (<<"%", "s">>)>>
    /\ lastFormat.args = <<Tenths(-39), Text(<<"a", "b">>)>>
    /\ lastFormat.result = Text(<<"%", "-", "4", "a", "b">>)

\* C24: luaFormat never fails: for every template and every argument list,
\* a list shorter than the number of placeholders and lists with null or
\* absent values included, it returns a string; in it a %s whose argument is
\* null or absent has become the empty string, and a %d, %i or %f whose
\* argument is absent or not numeric (undefined, NaN, or a string that
\* does not spell a number) has become "0".
C24_NeverFailsAndDefaults ==
    lastFormat.result # Undefined =>
        /\ lastFormat.result.t = "str"
        /\ \A i \in 1..Len(lastFormat.pieces) :
              LET pieces == lastFormat.pieces
                  args == lastFormat.args
                  before == SubSeq(pieces, 1, i - 1)
                  after == SubSeq(pieces, i + 1, Len(pieces))
                  k == Cardinality({j \in 1..(i - 1) : pieces[j] \in Placeholders})
                  raw == ArgAt(args, k)
                  NullOrAbsent == raw.t \in {"null", "undefined"}
                  AbsentOrNonNumeric ==
                      \/ raw.t \in {"undefined", "nan"}
                      \/ /\ raw.t = "str"
                         /\ \E j \in 1..Len(raw.chars) : ~IsDigit(raw.chars[j])
                  With(yield) == Text(InOrder(before, args, 0) \o yield
                                        \o InOrder(after, args, k + 1))
              IN  /\ pieces[i] = <<"%", "s">> /\ NullOrAbsent
                        => lastFormat.result = With(<<>>)
                  /\ (pieces[i] \in Placeholders \ {<<"%", "s">>}
                            /\ AbsentOrNonNumeric)
                        => lastFormat.result = With(<<"0">>)

\* luaFormat("%s%d%f", null, "ab"), one argument short, has returned "00"
C24_Witness ==
    /\ lastFormat.pieces = <<(<<"%", "s">>), (<<"%", "d">>), (<<"%", "f">>)>>
    /\ lastFormat.args = <<Null, Text(<<"a", "b">>)>>
    /\ lastFormat.result = Text(<<"0", "0">>)

\* ------------------------------------------------- dispatcher claims, II

\* C25: with several real-path dispatches in flight, each has its own timer
\* and abort signal: when the timer of one runs out, only that dispatch's
\* transport call is aborted, every other dispatch in flight stays as it
\* was; and when one dispatch settles and clears its timer, the timers of
\* the other dispatches in flight stay armed.
C25_OwnTimerAndSignal ==
    [][\A d \in DOMAIN call : \A e \in DOMAIN call \ {d} :
         LET Expires == call[d].timeoutId = "armed" /\ call'[d].timeoutId = "fired"
             Clears == call[d].timeoutId = "armed" /\ call'[d].timeoutId = "cleared"
         IN InFlight(call[e]) =>
                /\ Expires =>
                        /\ call'[e].controller = call[e].controller
                        /\ call'[e].pc = call[e].pc
                        /\ call'[e].outcome = Pending
                        /\ call'[e].timeoutId = call[e].timeoutId
                /\ Clears => call'[e].timeoutId = call[e].timeoutId]_vars

\* the first dispatch has timed out while the second, started later with a
\* timeout of its own, still awaits the transport with its timer armed
C25_Witness ==
    /\ IsTimeoutError(call[1].outcome)
    /\ call[1].timeoutId = "fired"
    /\ InFlight(call[2])
    /\ call[2].controller = "live"
    /\ call[2].timeoutId = "armed"

\* C26: with debug on, every dispatch logs the outbound line (event and
\* payload) first, before it looks at the mock table or calls the
\* transport; it logs a result line only when it succeeds (mock or real),
\* once the result is there and as the last thing before it returns that
\* result; a dispatch that fails logs no result line, and with debug off no
\* line is logged at all.
C26_LogOrder ==
    \A d \in DOMAIN call :
        LET c == call[d]
            IsLog(effect) == effect.dir \in {"out", "mock", "in"}
            ResultLogs == {i \in 1..Len(c.effects) : c.effects[i].dir \in {"mock", "in"}}
        IN  c.pc # "idle" =>
              /\ c.console = SelectSeq(c.effects, IsLog)
              /\ ~debug => c.console = <<>>
              /\ debug =>
                    /\ c.effects[1] = [dir |-> "out", event |-> c.event,
                                       arg |-> OrEmptyObject(c.data)]
                    /\ \A i \in 2..Len(c.effects) : c.effects[i].dir # "out"
                    /\ c.outcome.kind # "resolved" => ResultLogs = {}
                    /\ c.outcome.kind = "resolved" =>
                          /\ ResultLogs = {Len(c.effects)}
                          /\ c.effects[Len(c.effects)].event = c.event
                          /\ c.effects[Len(c.effects)].arg = c.outcome.value
                          /\ c.effects[Len(c.effects) - 1].dir
                                \in {"parsed", "invoke", "lookup"}

\* with debug on, a real-path call has logged the outbound line, tested the
\* mock table, called the transport, read the result and logged it
C26_Witness ==
    /\ debug
    /\ \E d \in DOMAIN call :
          /\ call[d].outcome = Resolved(ServerResult)
          /\ call[d].effects =
                <<[dir |-> "out", event |-> call[d].event, arg |-> Obj("{}")],
                  Effect("lookup"), Effect("fetch"), Effect("parsed"),
                  [dir |-> "in", event |-> call[d].event, arg |-> ServerResult]>>

\* ------------------------------------------------------ locale claims, II

\* C27 as stated: the table mergeLocales returns is a new table tree: its
\* root and every nested table reachable from it are objects other than the
\* tables of the inputs, so the global table extendLocales builds from it
\* shares no table with the tables the caller holds and a later change made
\* in place to one of those cannot show in it.
C27_ResultSharesNoTable ==
    lastOp.op = "extend" => LiveFrom(heap, _locales) \cap InputAddrs = {}

\* the table left by extendLocales(T) for each T of records in turn, when
\* the global table is the one at root
RECURSIVE OneByOne(_, _, _)
OneByOne(h, root, records) ==
    IF records = <<>> THEN [heap |-> h, result |-> root]
    ELSE LET m == mergeLocales(h, <<root, Head(records)>>)
         IN  OneByOne(m.heap, m.result, Tail(records))

\* C28: extending in one call or in several is the same: whatever the
\* global table is, extendLocales(A, B) leaves it equal by value to what
\* extendLocales(A) and then extendLocales(B) leave, and extendLocales()
\* with no table leaves it equal by value to what it was.
C28_ExtendOnceOrInSteps ==
    [][lastOp'.op = "extend" =>
          \A steps \in {OneByOne(heap, _locales, lastOp'.records)} :
              Deref(heap', _locales') = Deref(steps.heap, steps.result)]_vars

\* extendLocales(A, B) with A = table 1 and B = table 3 was called: "a.a"
\* and "b" are A's, "a.b" is B's, as after extending by A and then by B
C28_Witness ==
    /\ lastOp.op = "extend" /\ lastOp.records = <<1, 3>>
    /\ resolveKey(heap, _locales, <<"a", ".", "a">>) = Text(<<"X">>)
    /\ resolveKey(heap, _locales, <<"a", ".", "b">>) = Text(<<"Z">>)
    /\ resolveKey(heap, _locales, <<"b">>) = Text(<<"Y">>)

\* ------------------------------------------------------ listener claims, II

\* two registrations made with the same arguments: the same action and the
\* same handler function, or the same handler function in catch-all mode
SameSubscription(s, t) ==
    /\ subs[s].actionOrHandler = subs[t].actionOrHandler
    /\ subs[s].handler = subs[t].handler

\* the notification is one the registration's handler is called for
Matching(sub, payload) ==
    /\ ValidNotification(payload)
    /\ IsFiltered(sub) => payload.action = sub.actionOrHandler

\* the registration was on the window when the current dispatch began and
\* has not been cancelled since
Active(s) == InList(current.targets, s) /\ ~subs[s].cancelled

\* C29: every onNuiMessage call makes a registration of its own: each
\* registration not cancelled has its own listener on the window, and when
\* the same handler was subscribed twice (same action, or twice as
\* catch-all), a matching notification, once dispatched, has had the
\* handler called twice if both are active, and once if one of the two was
\* cancelled before.
C29_SameHandlerTwice ==
    /\ \A s \in 1..Len(subs) :
          Len(SelectSeq(listeners, LAMBDA x : x = s))
            = IF subs[s].cancelled THEN 0 ELSE 1
    /\ \A s, t \in 1..Len(subs) :
          (/\ s # t
           /\ SameSubscription(s, t)
           /\ pending = <<>>
           /\ Matching(subs[s], current.payload)) =>
              LET calls == SelectSeq(invoked, LAMBDA r : r.sub \in {s, t})
                  name == IF IsFiltered(subs[s]) THEN subs[s].handler.name
                          ELSE subs[s].actionOrHandler.name
              IN  /\ \A i \in 1..Len(calls) : calls[i].handler = name
                  /\ Active(s) /\ Active(t) => Len(calls) = 2
                  /\ (/\ Active(s)
                      /\ subs[t].cancelled
                      /\ ~InList(current.targets, t)) => Len(calls) = 1

\* the same handler subscribed twice for the same action, both active, and
\* a notification of that action dispatched: the handler was called twice
C29_Witness ==
    /\ Len(subs) = 2
    /\ IsFiltered(subs[1])
    /\ SameSubscription(1, 2)
    /\ Active(1) /\ Active(2)
    /\ pending = <<>>
    /\ Matching(subs[1], current.payload)
    /\ Len(invoked) = 2
    /\ invoked[1].handler = subs[1].handler.name
    /\ invoked[2].handler = subs[1].handler.name
    /\ invoked[1].sub # invoked[2].sub

\* ------------------------------------------------------ locale claims, III

\* C30: a key that resolves to the empty string counts as found: a
\* translator, of createTranslator or _U, returns the empty string (the
\* empty template formatted, if arguments were given), not the fallback.
C30_EmptyStringIsFound ==
    (/\ lastCall.fn # "none"
     /\ Walk(heap, Ref(lastCall.locales), Split(lastCall.key)) = Text(<<>>)) =>
        /\ lastCall.result = <<>>
        /\ lastCall.result # lastCall.fallback
        /\ lastCall.args # <<>> => lastCall.result = luaFormat(<<>>, lastCall.args)

\* table 6 holds "" at "b.a": it was registered and _U("b.a", fallback, "N")
\* has returned ""
C30_Witness ==
    /\ lastCall.fn = "_U"
    /\ lastCall.key = <<"b", ".", "a">>
    /\ lastCall.args = <<Text(<<"N">>)>>
    /\ lastCall.locales = 6
    /\ heap[heap[6][<<"b">>].a][<<"a">>] = Text(<<>>)
    /\ lastCall.result = <<>>

=============================================================================
